---- MODULE Spec2Model ----
(***************************************************************************)
(* Orders service (examples/generated-python-lambda/service): the request  *)
(* handler, the business logic and the DynamoDB data access layer.         *)
(*                                                                         *)
(* Optional values (Python's None) are sequences of length 0 or 1:         *)
(* <<>> is None and <<v>> is the value v.                                  *)
(***************************************************************************)
EXTENDS Integers, Sequences, FiniteSets, TLC

\* ---------------------------------------------------------------- bounds
\* Number of invocations (calls of lambda_handler or of process_request).
NumInv == 2
\* Number of data access layer operations of one run of SpecDAL.
MaxOps == 3

\* ------------------------------------------------------ program constants
\* RequestInput.name: Field(min_length=1, max_length=100)
NameMinLength == 1
NameMaxLength == 100
\* Observability.POWERTOOLS_SERVICE_NAME: Field(min_length=1)
ServiceNameMinLength == 1
\* Idempotency.IDEMPOTENCY_TABLE_NAME: Field(min_length=1)
IdempotencyTableNameMinLength == 1
\* HandlerEnvVars.TABLE_NAME: Field(min_length=1)
TableNameMinLength == 1

None == <<>>
Some(v) == <<v>>

Invs == 1 .. NumInv
\* The values uuid.uuid4() can return: one per invocation is enough for the
\* generator never to run out.
UUIDs == 1 .. NumInv

Name100 == "nnnnnnnnnnnnnnnnnnnnnnnnnnnnnnnnnnnnnnnnnnnnnnnnnnnnnnnnnnnnnnnnnnnnnnnnnnnnnnnnnnnnnnnnnnnnnnnnnnnn"
Name101 == "nnnnnnnnnnnnnnnnnnnnnnnnnnnnnnnnnnnnnnnnnnnnnnnnnnnnnnnnnnnnnnnnnnnnnnnnnnnnnnnnnnnnnnnnnnnnnnnnnnnnn"
\* Request bodies: two valid ones (the example of the schema, and the longest
\* name with the least count), and one for each way of being invalid.
Bodies == {
    [name |-> "example", count |-> 5],
    [name |-> Name100, count |-> 1],
    [name |-> "", count |-> 5],
    [name |-> Name101, count |-> 5],
    [name |-> "example", count |-> 0],
    [name |-> "example", count |-> -1] }
\* The tables of the store, and the table_name arguments of process_request.
Tables == {"orders", "audit"}
TableNameArgs == {None, Some(""), Some("orders"), Some("audit")}
\* Observability.LOG_LEVEL: the literals accepted.
LogLevels == {"DEBUG", "INFO", "ERROR", "CRITICAL", "WARNING"}

\* An environment: the four variables HandlerEnvVars reads, each set or unset.
Environment(service, level, idempotency, table) ==
    [POWERTOOLS_SERVICE_NAME |-> service, LOG_LEVEL |-> level,
     IDEMPOTENCY_TABLE_NAME |-> idempotency, TABLE_NAME |-> table]

\* The environments of the process: the complete one; TABLE_NAME unset or
\* empty; and TABLE_NAME alone, with the other three variables unset.
EnvChoices == {
    Environment(Some("orders-service"), Some("INFO"), Some("idempotency"), Some("orders")),
    Environment(Some("orders-service"), Some("INFO"), Some("idempotency"), None),
    Environment(Some("orders-service"), Some("INFO"), Some("idempotency"), Some("")),
    Environment(None, None, None, Some("orders")) }

VARIABLES
    env,            \* the environment variables of the process
    store,          \* store[t]: the set of items of DynamoDB table t
    usedIds,        \* the values uuid.uuid4() has returned
    pc,             \* pc[i]: where invocation i is
    entry,          \* entry[i]: "lambda" (lambda_handler) or "direct" (process_request)
    event,          \* event[i]: the request body {name, count}
    table_name,     \* table_name[i]: the table_name argument of process_request
    result,         \* result[i]: the dict process_request builds (optional)
    output,         \* output[i]: the RequestOutput process_request returned (optional)
    response,       \* response[i]: how the invocation ended
    saveCalls,      \* saveCalls[i]: the save_item calls invocation i made
    dalLog          \* the data access layer operations made directly, with results

vars == <<env, store, usedIds, pc, entry, event, table_name, result, output,
          response, saveCalls, dalLog>>
invVars == <<usedIds, pc, entry, event, table_name, result, output, response, saveCalls>>

\* ------------------------------------------------------ data access layer
\* save_item: table.put_item(Item=item) writes the item under its primary
\* key 'id', replacing the item stored under that key, if any.
save_item_appends(st, t, item) == [st EXCEPT ![t] = @ \cup {item}]
save_item_clobbers(st, t, item) == [st EXCEPT ![t] = {item}]
save_item(st, t, item) ==
    [st EXCEPT ![t] = {r \in @ : r.id # item.id} \cup {item}]

\* get_item: response.get('Item') is the item stored under the key, or None.
get_item(st, t, key) ==
    LET found == {r \in st[t] : r.id = key}
    IN  IF found = {} THEN None ELSE Some(CHOOSE r \in found : TRUE)

\* delete_item: table.delete_item(Key=key) removes the item under the key.
delete_item(st, t, key) ==
    [st EXCEPT ![t] = {r \in @ : r.id # key}]

\* ------------------------------------------------------------- validation
\* RequestInput.name: Field(min_length=1, max_length=100)
ValidName(name) == Len(name) >= NameMinLength /\ Len(name) <= NameMaxLength

\* RequestInput.check_count: raises ValueError when v <= 0.
check_count_off_by_one(v) == ~(v < 0)
check_count(v) == ~(v <= 0)

\* Whether RequestInput(**body) validates.
RequestInput(body) == ValidName(body.name) /\ check_count(body.count)

\* Whether HandlerEnvVars validates against the environment: the fields of
\* Observability and Idempotency, which it inherits, and TABLE_NAME are all
\* required.
HandlerEnvVars(e) ==
    /\ e.POWERTOOLS_SERVICE_NAME # None
    /\ Len(e.POWERTOOLS_SERVICE_NAME[1]) >= ServiceNameMinLength
    /\ e.LOG_LEVEL # None
    /\ e.LOG_LEVEL[1] \in LogLevels
    /\ e.IDEMPOTENCY_TABLE_NAME # None
    /\ Len(e.IDEMPOTENCY_TABLE_NAME[1]) >= IdempotencyTableNameMinLength
    /\ e.TABLE_NAME # None
    /\ Len(e.TABLE_NAME[1]) >= TableNameMinLength

\* process_request line 34, `if table_name:`: None and '' are both falsy.
TableNamePresent_inverted(t) == t = None
TableNamePresent_always(t) == TRUE
TableNamePresent(t) == t # None /\ t[1] # ""

\* dynamodb.Table(table_name): the name handed to the store.
TableOf(t) == IF t = None THEN "None" ELSE t[1]

\* uuid.uuid4(): the values the generator can return next. It never repeats a
\* value (the collision probability of 122 random bits is taken as zero).
uuid4_repeating(used) == UUIDs
uuid4(used) == UUIDs \ used

\* process_request lines 26-31: the record built for a request.
BuildResult_pending(item_id, body) ==
    [id |-> item_id, name |-> body.name, count |-> body.count, status |-> "pending"]
BuildResult(item_id, body) ==
    [id |-> item_id, name |-> body.name, count |-> body.count, status |-> "created"]

\* RequestOutput(**result): the four fields of the dict, unchanged.
RequestOutput(res) ==
    [id |-> res.id, name |-> res.name, count |-> res.count, status |-> res.status]

\* How an invocation ends: process_request returned its RequestOutput, or an
\* exception left the call.
Returned == [kind |-> "returned", body |-> "RequestOutput"]
Raised(exc) == [kind |-> "raised", body |-> exc]

\* ------------------------------------------------------------------- Init
Init ==
    /\ env \in EnvChoices
    /\ store = [t \in Tables |-> {}]
    /\ usedIds = {}
    /\ pc = [i \in Invs |-> "idle"]
    /\ entry = [i \in Invs |-> "none"]
    /\ event = [i \in Invs |-> None]
    /\ table_name = [i \in Invs |-> None]
    /\ result = [i \in Invs |-> None]
    /\ output = [i \in Invs |-> None]
    /\ response = [i \in Invs |-> None]
    /\ saveCalls = [i \in Invs |-> <<>>]
    /\ dalLog = <<>>

\* ---------------------------------------------------------------- actions
\* lambda_handler: init_environment_variables validates the environment and
\* raises ValueError when HandlerEnvVars rejects it. Otherwise app.resolve
\* calls the route: the resolver is built without enable_validation
\* (rest_api.py), so it neither validates the body nor passes it on, and
\* handle_request, called without request_input, raises TypeError. No exception
\* handler is registered, so the exception leaves lambda_handler; process_request
\* is not reached.
LambdaHandler(i) ==
    /\ pc[i] = "idle"
    /\ \E body \in Bodies :
        /\ entry' = [entry EXCEPT ![i] = "lambda"]
        /\ event' = [event EXCEPT ![i] = Some(body)]
        /\ pc' = [pc EXCEPT ![i] = "done"]
        /\ response' = [response EXCEPT ![i] =
              IF ~HandlerEnvVars(env) THEN Some(Raised("ValueError"))
                                      ELSE Some(Raised("TypeError"))]
    /\ UNCHANGED <<env, store, usedIds, table_name, result, output, saveCalls, dalLog>>

\* A call process_request(RequestInput(**body), table_name, context): the
\* construction of the RequestInput raises ValidationError for an invalid body.
CallProcessRequest(i) ==
    /\ pc[i] = "idle"
    /\ \E body \in Bodies, t \in TableNameArgs :
        /\ entry' = [entry EXCEPT ![i] = "direct"]
        /\ event' = [event EXCEPT ![i] = Some(body)]
        /\ IF ~RequestInput(body)
           THEN /\ pc' = [pc EXCEPT ![i] = "done"]
                /\ response' = [response EXCEPT ![i] = Some(Raised("ValidationError"))]
                /\ UNCHANGED table_name
           ELSE /\ pc' = [pc EXCEPT ![i] = "process"]
                /\ table_name' = [table_name EXCEPT ![i] = t]
                /\ UNCHANGED response
    /\ UNCHANGED <<env, store, usedIds, result, output, saveCalls, dalLog>>

\* process_request lines 23-31: item_id = str(uuid.uuid4()), a value the
\* generator has not returned before, and the result dict.
GenerateId(i) ==
    /\ pc[i] = "process"
    /\ \E u \in uuid4(usedIds) :
        /\ usedIds' = usedIds \cup {u}
        /\ result' = [result EXCEPT ![i] = Some(BuildResult(u, event[i][1]))]
    /\ pc' = [pc EXCEPT ![i] = "persist"]
    /\ UNCHANGED <<env, store, entry, event, table_name, output, response, saveCalls, dalLog>>

\* process_request lines 34-35, the store answering: save_item writes the item.
SaveItem(i) ==
    /\ pc[i] = "persist"
    /\ TableNamePresent(table_name[i])
    /\ TableOf(table_name[i]) \in Tables
    /\ store' = save_item(store, TableOf(table_name[i]), result[i][1])
    /\ saveCalls' = [saveCalls EXCEPT ![i] =
          Append(@, [table |-> TableOf(table_name[i]), item |-> result[i][1], ok |-> TRUE])]
    /\ pc' = [pc EXCEPT ![i] = "return"]
    /\ UNCHANGED <<env, usedIds, entry, event, table_name, result, output, response, dalLog>>

\* process_request lines 34-35, the store failing (unreachable, throttled):
\* put_item raises, nothing is written, and the exception leaves
\* process_request, handle_request and lambda_handler, none of which catches it.
SaveItemFails(i) ==
    /\ pc[i] = "persist"
    /\ TableNamePresent(table_name[i])
    /\ saveCalls' = [saveCalls EXCEPT ![i] =
          Append(@, [table |-> TableOf(table_name[i]), item |-> result[i][1], ok |-> FALSE])]
    /\ pc' = [pc EXCEPT ![i] = "done"]
    /\ response' = [response EXCEPT ![i] = Some(Raised("ClientError"))]
    /\ UNCHANGED <<env, store, usedIds, entry, event, table_name, result, output, dalLog>>

SkipSave_unguarded(i) ==
    /\ pc[i] = "persist"
    /\ pc' = [pc EXCEPT ![i] = "return"]
    /\ UNCHANGED <<env, store, usedIds, entry, event, table_name, result, output,
                   response, saveCalls, dalLog>>

\* process_request line 34 with a falsy table_name: persistence is skipped.
SkipSave(i) ==
    /\ pc[i] = "persist"
    /\ ~TableNamePresent(table_name[i])
    /\ pc' = [pc EXCEPT ![i] = "return"]
    /\ UNCHANGED <<env, store, usedIds, entry, event, table_name, result, output,
                   response, saveCalls, dalLog>>

\* process_request line 39 and handle_request lines 48-49: the RequestOutput is
\* returned, and the resolver answers 200 with it.
Return(i) ==
    /\ pc[i] = "return"
    /\ output' = [output EXCEPT ![i] = Some(RequestOutput(result[i][1]))]
    /\ response' = [response EXCEPT ![i] = Some(Returned)]
    /\ pc' = [pc EXCEPT ![i] = "done"]
    /\ UNCHANGED <<env, store, usedIds, entry, event, table_name, result, saveCalls, dalLog>>

Next ==
    \E i \in Invs :
        \/ LambdaHandler(i)
        \/ CallProcessRequest(i)
        \/ GenerateId(i)
        \/ SaveItem(i)
        \/ SaveItemFails(i)
        \/ SkipSave(i)
        \/ Return(i)

Spec == Init /\ [][Next]_vars

\* ------------------------------------- the data access layer on its own
\* The items a caller may save: a DBItem for every key and valid body.
DBItems == {BuildResult(k, b) : k \in UUIDs, b \in {x \in Bodies : RequestInput(x)}}

LogEntry(op, t, key, item, res) ==
    [op |-> op, table |-> t, key |-> key, item |-> item, result |-> res]

\* save_item(table_name, item)
DalSave ==
    /\ Len(dalLog) < MaxOps
    /\ \E t \in Tables, item \in DBItems :
        /\ store' = save_item(store, t, item)
        /\ dalLog' = Append(dalLog, LogEntry("save", t, item.id, Some(item), None))
    /\ UNCHANGED <<env, invVars>>

\* get_item(table_name, key)
DalGet ==
    /\ Len(dalLog) < MaxOps
    /\ \E t \in Tables, k \in UUIDs :
        dalLog' = Append(dalLog, LogEntry("get", t, k, None, get_item(store, t, k)))
    /\ UNCHANGED <<env, store, invVars>>

\* delete_item(table_name, key)
DalDelete ==
    /\ Len(dalLog) < MaxOps
    /\ \E t \in Tables, k \in UUIDs :
        /\ store' = delete_item(store, t, k)
        /\ dalLog' = Append(dalLog, LogEntry("delete", t, k, None, None))
    /\ UNCHANGED <<env, invVars>>

NextDAL == DalSave \/ DalGet \/ DalDelete

SpecDAL == Init /\ [][NextDAL]_vars
\* ================================================================ claims
\* process_request was called for invocation i.
Entered(i) == pc[i] \in {"process", "persist", "return"} \/ result[i] # None

\* The table_name argument names a table of the store ("present"); the
\* argument None is the absent table name.
NamesATable(t) == t # None /\ t[1] \in Tables

\* The store failed during a save of invocation i.
SaveFailed(i) == \E n \in 1 .. Len(saveCalls[i]) : ~saveCalls[i][n].ok

\* Invocation i has left process_request without the store failing.
Completed(i) == pc[i] = "done" /\ Entered(i) /\ ~SaveFailed(i)

Records == UNION {store[t] : t \in Tables}

\* C1: every output process_request returns has status "created", the name and
\* the count of its input, which is valid, and an id the generator returned
\* that differs from the id of every other output of the run; and every call
\* that the store does not fail, with a table name or without, returns one.
C1_OutputMatchesInput ==
    \A i \in Invs :
        /\ output[i] # None =>
            /\ RequestInput(event[i][1])
            /\ output[i][1].status = "created"
            /\ output[i][1].name = event[i][1].name
            /\ output[i][1].count = event[i][1].count
            /\ output[i][1].id \in usedIds
            /\ \A j \in Invs \ {i} :
                  output[j] # None => output[j][1].id # output[i][1].id
        /\ Completed(i) => output[i] # None

\* Two calls have returned outputs, one without a table name and one with.
C1_Witness ==
    \E i, j \in Invs :
        /\ i # j
        /\ output[i] # None /\ table_name[i] = None
        /\ output[j] # None /\ NamesATable(table_name[j])
        /\ output[i][1].name # output[j][1].name

\* C2: a request with count <= 0, or a name of length 0 or above 100, is
\* rejected before business logic: process_request is not entered, no save
\* call is made, no RequestOutput is produced, and every record of the store
\* was saved by an invocation with a valid body.
C2_InvalidRejected ==
    /\ \A i \in Invs :
        (event[i] # None /\ (event[i][1].count <= 0 \/ Len(event[i][1].name) = 0
                             \/ Len(event[i][1].name) > 100)) =>
            /\ pc[i] = "done"
            /\ ~Entered(i)
            /\ saveCalls[i] = <<>>
            /\ output[i] = None
            /\ response[i] # None
            /\ response[i][1].kind = "raised"
            /\ entry[i] = "direct" => response[i] = Some(Raised("ValidationError"))
    /\ \A r \in Records : \E j \in Invs :
          /\ event[j] # None
          /\ event[j][1].count > 0
          /\ Len(event[j][1].name) \in 1 .. 100
          /\ result[j] = Some(r)

\* A body with count 0 has been rejected while the store holds a record.
C2_Witness ==
    /\ Records # {}
    /\ \E i \in Invs :
        /\ event[i] # None
        /\ event[i][1].count = 0
        /\ response[i] = Some(Raised("ValidationError"))

\* C3: a call of process_request with a table name present that the store
\* does not fail makes exactly one save_item call, on the table supplied, with
\* an item equal in id, name, count and status to the output returned; the
\* store then holds that item under its id.
C3_ExactlyOneSave ==
    \A i \in Invs :
        (NamesATable(table_name[i]) /\ pc[i] \in {"return", "done"} /\ ~SaveFailed(i)) =>
            /\ Len(saveCalls[i]) = 1
            /\ saveCalls[i][1].table = table_name[i][1]
            /\ saveCalls[i][1].item = result[i][1]
            /\ get_item(store, table_name[i][1], result[i][1].id) = result[i]
            /\ pc[i] = "done" =>
                /\ output[i] # None
                /\ saveCalls[i][1].item.id = output[i][1].id
                /\ saveCalls[i][1].item.name = output[i][1].name
                /\ saveCalls[i][1].item.count = output[i][1].count
                /\ saveCalls[i][1].item.status = output[i][1].status

\* A call with table "audit" has saved its item and returned it.
C3_Witness ==
    \E i \in Invs :
        /\ table_name[i] = Some("audit")
        /\ output[i] # None
        /\ Len(saveCalls[i]) = 1
        /\ output[i][1] \in store["audit"]

\* A step of invocation i.
StepOf(i) == pc'[i] # pc[i]

\* C4: a call of process_request with the table name absent makes no save
\* call, none of its steps changes the store, and it returns an output with
\* status "created".
C4_AbsentTableNoSave ==
    /\ [](\A i \in Invs :
            (Entered(i) /\ table_name[i] = None) =>
                /\ saveCalls[i] = <<>>
                /\ \A r \in Records : result[i] = None \/ r.id # result[i][1].id
                /\ pc[i] = "done" =>
                    /\ output[i] # None
                    /\ output[i][1].status = "created"
                    /\ response[i] = Some(Returned))
    /\ [][\A i \in Invs :
            (StepOf(i) /\ (Entered(i) \/ Entered(i)') /\ table_name'[i] = None) =>
                store' = store]_vars

\* A call without a table name has returned while the store holds a record of
\* another invocation.
C4_Witness ==
    \E i \in Invs :
        /\ Entered(i) /\ table_name[i] = None
        /\ output[i] # None
        /\ Records # {}
\* The records of the store, each with its table.
Stored == UNION {{<<t, r>> : r \in store[t]} : t \in Tables}

\* No invocation is inside process_request.
Quiescent == \A i \in Invs : pc[i] \in {"idle", "done"}

Succeeded == {i \in Invs : output[i] # None}

\* C5 as stated: every request for which a RequestOutput is returned has
\* exactly one persisted record, with its id and status "created", and (once
\* no request is in flight) the store holds as many records as requests
\* succeeded.
C5_EverySuccessPersisted ==
    /\ \A i \in Succeeded :
          \E t \in Tables :
              {x \in Stored : x[2].id = output[i][1].id} = {<<t, output[i][1]>>}
    /\ Quiescent => Cardinality(Stored) = Cardinality(Succeeded)

\* C5 amended: every request for which a RequestOutput is returned and that was
\* given a table name has exactly one persisted record, in that table, equal
\* to the output, with an id no other request has and status "created"; a
\* request that succeeded without a table name has none; every record is the
\* whole record of one request; and once no request is in flight the store
\* holds as many records as requests succeeded with a table name.
C5_SuccessWithTablePersisted ==
    /\ \A i \in Succeeded :
        /\ NamesATable(table_name[i]) =>
            /\ {x \in Stored : x[2].id = output[i][1].id}
                  = {<<table_name[i][1], output[i][1]>>}
            /\ output[i][1].status = "created"
            /\ \A j \in Invs \ {i} : result[j] # None => result[j][1].id # output[i][1].id
        /\ ~NamesATable(table_name[i]) =>
            {x \in Stored : x[2].id = output[i][1].id} = {}
    /\ \A x \in Stored : \E j \in Invs : result[j] = Some(x[2])
    /\ Quiescent =>
          Cardinality(Stored)
              = Cardinality({i \in Succeeded : NamesATable(table_name[i])})

\* All requests are over: one succeeded with a table name, one without.
C5_Witness ==
    /\ Quiescent
    /\ Cardinality(Stored) = 1
    /\ \E i, j \in Succeeded : table_name[i] = Some("orders") /\ table_name[j] = None

\* C6 as stated: a request whose save fails ends with an HTTP 500 response
\* carrying an ErrorOutput body, no RequestOutput, and one save attempt.
C6_SaveFailureGives500 ==
    \A i \in Invs :
        SaveFailed(i) =>
            /\ response[i] =
                  Some([kind |-> "response", statusCode |-> 500, body |-> "ErrorOutput"])
            /\ output[i] = None
            /\ Len(saveCalls[i]) = 1

\* C7 as stated: a valid request through lambda_handler with TABLE_NAME missing
\* from the environment completes with a RequestOutput and makes no save call.
C7_MissingTableSkipsSave ==
    \A i \in Invs :
        (entry[i] = "lambda" /\ env.TABLE_NAME = None /\ pc[i] = "done"
             /\ event[i][1].count > 0 /\ Len(event[i][1].name) \in 1 .. 100) =>
            /\ output[i] # None
            /\ response[i] =
                  Some([kind |-> "response", statusCode |-> 200, body |-> "RequestOutput"])
            /\ saveCalls[i] = <<>>

\* Invocation i has saved its record.
Saved(i) == saveCalls[i] # <<>> /\ saveCalls[i][1].ok

\* C9: no step removes or changes a record of the store (each table only
\* grows), and any two invocations that have saved, alike in name and count or
\* not, have saved two distinct records that are both in the store.
C9_RecordsOnlyAdded ==
    /\ [][\A t \in Tables : store[t] \subseteq store'[t]]_vars
    /\ [](\A i, j \in Invs :
            (i # j /\ Saved(i) /\ Saved(j)) =>
                /\ saveCalls[i][1].item # saveCalls[j][1].item
                /\ saveCalls[i][1].item.id # saveCalls[j][1].item.id
                /\ saveCalls[i][1].item \in store[saveCalls[i][1].table]
                /\ saveCalls[j][1].item \in store[saveCalls[j][1].table])

\* Two invocations with the same name and count have saved to the same table,
\* which holds two records.
C9_Witness ==
    \E i, j \in Invs :
        /\ i # j
        /\ event[i] = event[j]
        /\ table_name[i] = Some("orders") /\ table_name[j] = Some("orders")
        /\ Saved(i) /\ Saved(j)
        /\ Cardinality(store["orders"]) = 2

\* The save of invocation i's record has completed.
SaveCompleted(i) ==
    /\ Saved(i)
    /\ saveCalls[i][1].item.id = result[i][1].id
    /\ get_item(store, saveCalls[i][1].table, result[i][1].id) = result[i]

\* C10: with a table name present, an invocation that has returned a
\* RequestOutput has completed the save of the record with the output's id, the
\* save was complete before the step that returned the output, and an
\* invocation whose save failed has no RequestOutput, then or later.
C10_SaveBeforeResponse ==
    /\ [](\A i \in Invs :
            NamesATable(table_name[i]) =>
                /\ output[i] # None =>
                      SaveCompleted(i) /\ saveCalls[i][1].item.id = output[i][1].id
                /\ SaveFailed(i) => output[i] = None /\ pc[i] = "done")
    /\ [][\A i \in Invs :
            (NamesATable(table_name[i]) /\ output'[i] # output[i]) =>
                SaveCompleted(i)]_vars

\* An invocation has returned its output after its save, and the save of
\* another invocation has failed.
C10_Witness ==
    \E i, j \in Invs :
        /\ NamesATable(table_name[i]) /\ output[i] # None
        /\ response[i] = Some(Returned)
        /\ SaveFailed(j) /\ pc[j] = "done"
\* The item most recently saved under key k of table t and not deleted since,
\* by the operations of log, or None.
RECURSIVE LastSaved(_, _, _)
LastSaved(log, t, k) ==
    IF log = <<>> THEN None
    ELSE LET e == log[Len(log)]
         IN  IF e.table = t /\ e.key = k /\ e.op = "save" THEN e.item
             ELSE IF e.table = t /\ e.key = k /\ e.op = "delete" THEN None
             ELSE LastSaved(SubSeq(log, 1, Len(log) - 1), t, k)

\* C8: over any sequence of save_item, get_item and delete_item, every get_item
\* returned the item most recently saved under its key and not deleted since,
\* or None; each table holds one record per key, the one most recently saved
\* and not deleted; and an operation changes no record under another key or in
\* another table.
C8_KeyValueMap ==
    /\ [](/\ \A n \in 1 .. Len(dalLog) :
               dalLog[n].op = "get" =>
                   dalLog[n].result
                       = LastSaved(SubSeq(dalLog, 1, n - 1), dalLog[n].table, dalLog[n].key)
          /\ \A t \in Tables :
               /\ \A k \in UUIDs : get_item(store, t, k) = LastSaved(dalLog, t, k)
               /\ \A r1, r2 \in store[t] : r1.id = r2.id => r1 = r2
               /\ Cardinality(store[t])
                      = Cardinality({k \in UUIDs : LastSaved(dalLog, t, k) # None}))
    /\ [][\A t \in Tables, k \in UUIDs :
            (dalLog' # dalLog /\ (dalLog'[Len(dalLog')].table # t
                                     \/ dalLog'[Len(dalLog')].key # k)) =>
                {r \in store'[t] : r.id = k} = {r \in store[t] : r.id = k}]_vars

\* A key was saved twice with different items and then read, and the read
\* returned the second item while another key of the table kept its record.
C8_Witness ==
    /\ Len(dalLog) = 3
    /\ dalLog[1].op = "save" /\ dalLog[2].op = "save" /\ dalLog[3].op = "get"
    /\ dalLog[1].table = dalLog[2].table /\ dalLog[2].table = dalLog[3].table
    /\ dalLog[1].key = dalLog[2].key /\ dalLog[2].key = dalLog[3].key
    /\ dalLog[1].item # dalLog[2].item
    /\ dalLog[3].result = dalLog[2].item
    /\ Cardinality(store[dalLog[3].table]) = 1
====
